---- MODULE Spec2Model ----
(***************************************************************************)
(* Model of the generation orchestration core of the Telegram image bot    *)
(* in src/main.py: credential loading, FusionBrainAPI (pipeline            *)
(* resolution, generate, check_generation), initialize_fusion_clients,     *)
(* main(), the message handlers and run_generation_task.                   *)
(*                                                                         *)
(* The event loop is cooperative: a coroutine runs without interruption    *)
(* from one await to the next, so every action below is the code between   *)
(* two suspension points (an HTTP call in the executor, asyncio.sleep, or  *)
(* a Telegram call).                                                       *)
(***************************************************************************)
EXTENDS Integers, Sequences, FiniteSets, TLC

\* ------------------------------------------------------------------ bounds
\* Number of numbered credential pairs the environment may hold.
MaxCreds == 3
\* Number of credential pairs in the runs with several concurrent tasks.
MaxPool == 2
\* Number of Telegram updates (hence generation tasks) of one behaviour.
MaxTasks == 2
\* Attempt budget of check_generation (30 by default in the source, scaled down).
MaxAttempts == 2
\* Telegram calls that raise within one run.
MaxFaults == 2

\* ------------------------------------------------------- program constants
\* prompt[:1000] in run_generation_task.
PromptLimit == 1000
\* len(original_prompt) > 900 in handle_text_message.
TextLimit == 900

None == "None"

Min(a, b) == IF a <= b THEN a ELSE b

Creds == 1..MaxCreds
Tasks == 1..MaxTasks

\* ------------------------------------------------------------------ strings
\* A Python str is modelled as a view [base, off, len] on a base text: its
\* i-th character (1-based) is character off+i of text `base`.
CharOfText(base, i) == (base * i) % 7

CharAt(s, i) == CharOfText(s.base, s.off + i)

StrLen(s) == s.len

MkStr(base, n) == [base |-> base, off |-> 0, len |-> n]

\* s[:n] for n >= 0.
SliceSuffix(s, n) == [base |-> s.base, off |-> s.off + (s.len - Min(s.len, n)), len |-> Min(s.len, n)]

SlicePrefix(s, n) == [base |-> s.base, off |-> s.off, len |-> Min(s.len, n)]

StrEq(a, b) == /\ a.len = b.len
               /\ \A i \in 1..a.len : CharAt(a, i) = CharAt(b, i)

IsPrefixOf(q, s) == /\ q.len <= s.len
                    /\ \A i \in 1..q.len : CharAt(q, i) = CharAt(s, i)

\* ------------------------------------------------------------ remote service
\* A pipeline record of GET key/api/v1/pipelines; NoKey marks an absent key
\* ('id' or 'version').
NoKey == "NoKey"

Pipe(status, type, version, id) ==
    [status |-> status, type |-> type, version |-> version, id |-> id]

\* The listings the remote is modelled to return.
Listings ==
    { <<>>,
      << Pipe("ACTIVE", "TEXT2IMAGE", "3.1", "p1") >>,
      << Pipe("DISABLED", "TEXT2IMAGE", "3.1", "p0"),
         Pipe("ACTIVE", "TEXT2IMAGE", "3.1", "p1") >>,
      << Pipe("ACTIVE", "IMAGE2IMAGE", "3.1", "p3") >>,
      << Pipe("ACTIVE", "TEXT2IMAGE", "3.1", NoKey),
         Pipe("ACTIVE", "TEXT2IMAGE", "3.1", "p1") >>,
      << Pipe("ACTIVE", "TEXT2IMAGE", "3.1", "") >>,
      << Pipe("ACTIVE", "TEXT2IMAGE", "3.0", "p2"),
         Pipe("ACTIVE", "TEXT2IMAGE", "3.1", "p1") >>,
      << Pipe("ACTIVE", "TEXT2IMAGE", NoKey, "p4") >> }

\* Outcomes of the pipelines request: a RequestException (network error or
\* raise_for_status), any other exception (unparsable or oddly shaped body),
\* or a parsed listing.
PipelineResponses ==
    { [kind |-> "neterr", data |-> <<>>], [kind |-> "exc", data |-> <<>>] }
    \cup { [kind |-> "ok", data |-> l] : l \in Listings }

\* ------------------------------------------------------------------- state
VARIABLES
    environ,              \* os.environ: the credential variables set at import
    keyPairs,             \* FUSION_BRAIN_KEY_PAIRS: the key ids loaded at import
    mainpc,               \* position of main()
    initTask,             \* per client: state/result of its init_pipeline task
    pipeline_id,          \* per client: FusionBrainAPI.pipeline_id
    fusion_clients,       \* bot_data['fusion_clients'] (client numbers, in order)
    fusion_client_index,  \* bot_data['fusion_client_index']
    handlers,             \* the message handlers are registered
    nUpdates,             \* number of Telegram updates (or client calls) that arrive
    nextUpdate,           \* the next update to be handled
    task,                 \* per update: the frame of its run_generation_task
    dispatchLog           \* pool positions selected so far, in dispatch order

startupVars == <<environ, keyPairs, mainpc, initTask, pipeline_id, fusion_clients, handlers>>

vars == <<environ, keyPairs, mainpc, initTask, pipeline_id, fusion_clients,
          fusion_client_index, handlers, nUpdates, nextUpdate, task, dispatchLog>>

\* ------------------------------------------- FusionBrainAPI.initialize_pipeline_id
IsActiveT2I(p) == p.status = "ACTIVE" /\ p.type = "TEXT2IMAGE"

\* next((p for p in data if ...), None): index of the first match, 0 for None.
FirstActive(data) ==
    IF \E i \in 1..Len(data) : IsActiveT2I(data[i])
    THEN CHOOSE i \in 1..Len(data) :
            /\ IsActiveT2I(data[i])
            /\ \A j \in 1..(i - 1) : ~IsActiveT2I(data[j])
    ELSE 0

initialize_pipeline_id_clearing(old, resp) ==
    IF resp.kind # "ok" THEN [ok |-> FALSE, id |-> None]
    ELSE LET i == FirstActive(resp.data) IN
         IF i # 0 /\ resp.data[i].id # NoKey
         THEN [ok |-> TRUE, id |-> resp.data[i].id]
         ELSE [ok |-> FALSE, id |-> None]

\* The value returned and the pipeline_id stored, given the stored id `old`.
initialize_pipeline_id(old, resp) ==
    IF resp.kind # "ok" THEN [ok |-> FALSE, id |-> old]
    ELSE LET i == FirstActive(resp.data) IN
         IF i # 0 /\ resp.data[i].id # NoKey
         THEN [ok |-> TRUE, id |-> resp.data[i].id]
         ELSE [ok |-> FALSE, id |-> old]

\* --------------------------------------------------- initialize_fusion_clients
\* clients.append(client) for each (client, result) with result is True, in order.
RECURSIVE CollectClients(_, _)
CollectClientsAll(res, n) == [i \in 1..n |-> i]

CollectClients(res, n) ==
    IF n = 0 THEN <<>>
    ELSE IF res[n] = "true" THEN Append(CollectClients(res, n - 1), n)
         ELSE CollectClients(res, n - 1)

\* ------------------------------------------------------------ base64.b64decode
B64Alphabet ==
    << "A","B","C","D","E","F","G","H","I","J","K","L","M","N","O","P",
       "Q","R","S","T","U","V","W","X","Y","Z","a","b","c","d","e","f",
       "g","h","i","j","k","l","m","n","o","p","q","r","s","t","u","v",
       "w","x","y","z","0","1","2","3","4","5","6","7","8","9","+","/" >>

InAlphabet(ch) == \E i \in 1..64 : B64Alphabet[i] = ch

B64Value(ch) == (CHOOSE i \in 1..64 : B64Alphabet[i] = ch) - 1

IsData(ch) == InAlphabet(ch)

IsPad(ch) == ch = "="

\* Three bytes of a full group of four sextets.
GroupBytes(g) ==
    LET n == ((B64Value(g[1]) * 64 + B64Value(g[2])) * 64 + B64Value(g[3])) * 64
             + B64Value(g[4])
    IN  << n \div 65536, (n \div 256) % 256, n % 256 >>

\* The bytes of a final partial group of two or three sextets.
TailBytes(g) ==
    IF Len(g) = 2
    THEN << (B64Value(g[1]) * 64 + B64Value(g[2])) \div 16 >>
    ELSE LET n == ((B64Value(g[1]) * 64 + B64Value(g[2])) * 64 + B64Value(g[3])) \div 4
         IN  << n \div 256, n % 256 >>

RECURSIVE DecodeData(_)
DecodeData(d) ==
    IF Len(d) = 0 THEN <<>>
    ELSE IF Len(d) >= 4 THEN GroupBytes(SubSeq(d, 1, 4)) \o DecodeData(SubSeq(d, 5, Len(d)))
    ELSE TailBytes(d)

\* base64.b64decode(payload) with validate=False: characters outside the
\* alphabet are discarded, a partial final group needs its padding.  The
\* result is [err, bytes]: err is "TypeError" for a payload that is no
\* string, "binascii.Error" for bad padding, "ok" otherwise.
b64decode(payload) ==
    IF ~payload.isstr THEN [err |-> "TypeError", bytes |-> <<>>]
    ELSE LET data == SelectSeq(payload.chars, IsData)
             pads == Len(SelectSeq(payload.chars, IsPad))
             r    == Len(data) % 4
         IN  IF r = 1 \/ (r = 2 /\ pads < 2) \/ (r = 3 /\ pads < 1)
             THEN [err |-> "binascii.Error", bytes |-> <<>>]
             ELSE [err |-> "ok", bytes |-> DecodeData(data)]

PyStr(chars) == [isstr |-> TRUE, chars |-> chars]

PayloadABC == PyStr(<<"Q", "U", "J", "D">>)
PayloadAB == PyStr(<<"Q", "U", "I", "=">>)
PayloadBadPadding == PyStr(<<"Q", "U", "J">>)
PayloadEmpty == PyStr(<<>>)
PayloadGarbage == PyStr(<<"!", "!", "!", "!">>)
PayloadNotStr == [isstr |-> FALSE, chars |-> <<>>]

Payloads == {PayloadABC, PayloadAB, PayloadBadPadding, PayloadEmpty,
             PayloadGarbage, PayloadNotStr}

\* -------------------------------------------------- status and run responses
Files(shape, items) == [shape |-> shape, items |-> items]

\* A reply to GET pipeline/status/<uuid>: kind is "ok" (a 2xx JSON body),
\* "Timeout", "RequestException" or "Exception" (what the request raised).
StatusBody(status, result, censored, files) ==
    [kind |-> "ok", status |-> status, result |-> result, censored |-> censored,
     files |-> files]

StatusRaise(kind) ==
    [kind |-> kind, status |-> "", result |-> "absent", censored |-> FALSE,
     files |-> Files("absent", <<>>)]

NoReply == StatusRaise("none")

StatusOnly(status) == StatusBody(status, "absent", FALSE, Files("absent", <<>>))

FileShapes ==
    { Files("absent", <<>>), Files("list", <<>>), Files("other", <<>>) }
    \cup { Files("list", <<p>>) : p \in Payloads }
    \cup { Files("list", <<PayloadABC, PayloadBadPadding>>) }

DoneOk == StatusBody("DONE", "dict", FALSE, Files("list", <<PayloadABC>>))

StatusResponses ==
    { StatusRaise("Timeout"), StatusRaise("RequestException"), StatusRaise("Exception"),
      StatusOnly("INITIAL"), StatusOnly("PROCESSING"), StatusOnly("QUEUED"), StatusOnly("FAIL"),
      StatusOnly(None),
      StatusBody("DONE", "null", FALSE, Files("absent", <<>>)),
      StatusBody("DONE", "absent", FALSE, Files("absent", <<>>)) }
    \cup { StatusBody("DONE", "dict", c, f) : c \in BOOLEAN, f \in FileShapes }

CoreStatusResponses == { StatusOnly("PROCESSING"), StatusOnly("FAIL"), DoneOk }

\* What POST pipeline/run gives: the key found in a 2xx body, or what was raised.
GenerateResponses ==
    { "uuid", "errorDescription", "pipeline_status", "unexpected",
      "Timeout", "RequestException", "Exception" }

CoreGenerateResponses == { "uuid", "errorDescription" }

CorePipelineResponses ==
    { [kind |-> "neterr", data |-> <<>>],
      [kind |-> "ok", data |-> << Pipe("ACTIVE", "TEXT2IMAGE", "3.1", "p1") >>] }

\* The replies to the pipelines request in SpecUnit: every failure, and the
\* listings that yield the id p1 or the empty id.
UnitPipelineResponses ==
    { r \in PipelineResponses :
        \A i \in 1..Len(r.data) : r.data[i].id \notin {"p2", "p4"} }

\* ------------------------------------------------------------- task frames
NoStr == [base |-> 0 - 1, off |-> 0, len |-> 0]

NoRequest == [pipeline_id |-> None, query |-> NoStr]

Result(kind, files) == [kind |-> kind, files |-> files]

NoResult == Result("none", <<>>)

NoKeyId == 0 - 1

Msg(text, key) == [text |-> text, key |-> key]

NoMessage == Msg("none", NoKeyId)

StatusMessage == Msg("status", NoKeyId)

IdleTask ==
    [pc |-> "idle", direct |-> FALSE, prompt |-> NoStr, gen_prompt |-> NoStr,
     selected |-> 0, request |-> NoRequest, uuid |-> None, attempts |-> 0,
     current_attempt |-> 0, queries |-> 0, sleeps |-> 0, seen |-> {},
     last |-> NoReply, result |-> NoResult, photo |-> FALSE, message |-> NoMessage,
     escaped |-> FALSE, raised |-> {}, truncLogged |-> FALSE,
     id_before |-> None, resolved |-> "none", posts |-> 0, gen_reply |-> "none",
     polled |-> {}, moved |-> FALSE]

FalsyNoneOnly(id) == id = None

\* A Python value is falsy when it is None or the empty string.
Falsy(id) == id = None \/ id = ""

\* ----------------------------------------- FusionBrainAPI.check_generation
\* One pass of the loop body over a reply: the value returned, or
\* Result("none") when the loop goes on; class names what kind of
\* non-terminal reply it was.
StatusClass(resp) ==
    IF resp.kind \in {"Timeout", "RequestException"} THEN "transient"
    ELSE IF resp.kind = "ok" /\ resp.status \in {"INITIAL", "PROCESSING"} THEN "pending"
    ELSE IF resp.kind = "ok" /\ resp.status \notin {"DONE", "FAIL"} THEN "unknown"
    ELSE "terminal"

DoneValueFilesFirst(resp) ==
    IF resp.result = "null" THEN Result("error", <<>>)
    ELSE IF resp.result = "dict" /\ resp.files.shape = "list" /\ resp.files.items # <<>>
         THEN Result("files", resp.files.items)
    ELSE IF resp.result = "dict" /\ resp.censored THEN Result("censored", <<>>)
    ELSE Result("error", <<>>)

\* The branch for status == 'DONE'.
DoneValueAnyList(resp) ==
    IF resp.result = "null" THEN Result("error", <<>>)
    ELSE IF resp.result = "dict" /\ resp.censored THEN Result("censored", <<>>)
    ELSE IF resp.result = "dict" /\ resp.files.shape = "list"
         THEN Result("files", resp.files.items)
    ELSE Result("error", <<>>)

DoneValue(resp) ==
    IF resp.result = "null" THEN Result("error", <<>>)
    ELSE IF resp.result = "dict" /\ resp.censored THEN Result("censored", <<>>)
    ELSE IF resp.result = "dict" /\ resp.files.shape = "list" /\ resp.files.items # <<>>
         THEN Result("files", resp.files.items)
    ELSE Result("error", <<>>)

StatusValueFailRetried(resp) ==
    IF resp.kind = "Exception" THEN Result("error", <<>>)
    ELSE IF resp.kind # "ok" THEN NoResult
    ELSE IF resp.status = "DONE" THEN DoneValue(resp)
    ELSE NoResult

StatusValueExceptionRetried(resp) ==
    IF resp.kind # "ok" THEN NoResult
    ELSE IF resp.status = "DONE" THEN DoneValue(resp)
    ELSE IF resp.status = "FAIL" THEN Result("error", <<>>)
    ELSE NoResult

\* The value the loop body returns for a reply, NoResult when it returns
\* nothing and the loop goes on.
StatusValueUnknownIsError(resp) ==
    IF resp.kind = "Exception" THEN Result("error", <<>>)
    ELSE IF resp.kind # "ok" THEN NoResult
    ELSE IF resp.status = "DONE" THEN DoneValue(resp)
    ELSE IF resp.status \in {"INITIAL", "PROCESSING"} THEN NoResult
    ELSE Result("error", <<>>)

StatusValue(resp) ==
    IF resp.kind = "Exception" THEN Result("error", <<>>)
    ELSE IF resp.kind # "ok" THEN NoResult
    ELSE IF resp.status = "DONE" THEN DoneValue(resp)
    ELSE IF resp.status = "FAIL" THEN Result("error", <<>>)
    ELSE NoResult

\* "if current_attempt < attempts: await asyncio.sleep(delay)".
SleepsBeforeEveryExit(current_attempt, attempts) == current_attempt <= attempts

SleepsAfter(current_attempt, attempts) == current_attempt < attempts

\* "while current_attempt < attempts".
LoopsOnceMore(current_attempt, attempts) == current_attempt <= attempts

LoopNeverEnds(current_attempt, attempts) == TRUE

LoopTestedAtEnd(current_attempt, attempts) ==
    current_attempt = 0 \/ current_attempt < attempts

LoopGoesOn(current_attempt, attempts) == current_attempt < attempts

\* ----------------------------------- run_generation_task: result presentation
\* The awaited Telegram calls of the presentation; a fault set F names those
\* that raise in this run.
Sites == {"edit", "chat_action", "send_photo", "delete", "edit_decode",
          "edit_send", "edit_critical"}

\* A run makes at most two calls that raise (one in the try, one in the
\* handler it reaches), and the calls that do not raise behave alike in every
\* fault set, so the fault sets of up to MaxFaults sites cover every way a run
\* can go.
FaultSets == { F \in SUBSET Sites : Cardinality(F) <= MaxFaults }

CoreFaultSets == { {}, Sites }

Outcome(photo, message, escaped, raised) ==
    [photo |-> photo, message |-> message, escaped |-> escaped, raised |-> raised]

OuterHandlerUnguarded(F, photo, message, raised) ==
    IF "edit_critical" \in F
    THEN Outcome(photo, message, TRUE, raised \cup {"edit_critical"})
    ELSE Outcome(photo, Msg("critical", NoKeyId), FALSE, raised)

\* "except Exception as task_err": the edit is itself inside try/except.
OuterHandler(F, photo, message, raised) ==
    IF "edit_critical" \in F
    THEN Outcome(photo, message, FALSE, raised \cup {"edit_critical"})
    ELSE Outcome(photo, Msg("critical", NoKeyId), FALSE, raised)

\* "except Exception as send_err": the edit is inside try/except.
SendErrorHandler(F, photo, message, raised) ==
    IF "edit_send" \in F
    THEN Outcome(photo, message, FALSE, raised \cup {"edit_send"})
    ELSE Outcome(photo, Msg("send_error", NoKeyId), FALSE, raised)

\* "except (base64.binascii.Error, ValueError)": the edit is not guarded, so
\* what it raises leaves the inner try and reaches the outer handler.
DecodeErrorHandler(F, photo, message, raised) ==
    IF "edit_decode" \in F
    THEN OuterHandler(F, photo, message, raised \cup {"edit_decode"})
    ELSE Outcome(photo, Msg("decode_error", NoKeyId), FALSE, raised)

\* One of the edit_text calls made directly in the outer try.
EditInTry(F, text, key, message) ==
    IF "edit" \in F THEN OuterHandler(F, FALSE, message, {"edit"})
    ELSE Outcome(FALSE, Msg(text, key), FALSE, {})

\* Lines 481-502 once image_data is there: the chat action, the photo, the
\* deletion of the status message.
SendDecoded(F, message) ==
    IF "chat_action" \in F THEN SendErrorHandler(F, FALSE, message, {"chat_action"})
    ELSE IF "send_photo" \in F THEN SendErrorHandler(F, FALSE, message, {"send_photo"})
    ELSE IF "delete" \in F THEN SendErrorHandler(F, TRUE, message, {"delete"})
    ELSE Outcome(TRUE, Msg("deleted", NoKeyId), FALSE, {})

SendFirstPayloadUnchecked(F, payload, message) ==
    LET dec == b64decode(payload) IN
    IF dec.err = "TypeError" THEN SendErrorHandler(F, FALSE, message, {"b64decode"})
    ELSE SendDecoded(F, message)

\* The branch for a non-empty list: decode result[0], send it, delete the
\* status message.
SendFirstPayload(F, payload, message) ==
    LET dec == b64decode(payload) IN
    IF dec.err = "TypeError" THEN SendErrorHandler(F, FALSE, message, {"b64decode"})
    ELSE IF dec.err = "binascii.Error" \/ dec.bytes = <<>>
         THEN DecodeErrorHandler(F, FALSE, message, {"b64decode"})
    ELSE SendDecoded(F, message)

\* Lines 453-525: what the user ends up with, given generate's return value
\* `uuid` and check_generation's return value `result`.
Present(F, uuid, result, key, message) ==
    IF uuid = None THEN EditInTry(F, "submit_failed", key, message)
    ELSE IF result.kind = "error" THEN EditInTry(F, "error", key, message)
    ELSE IF result.kind = "timeout" THEN EditInTry(F, "timeout", key, message)
    ELSE IF result.kind = "censored" THEN EditInTry(F, "censored", key, message)
    ELSE IF result.kind = "files" /\ Len(result.files) > 0
         THEN SendFirstPayload(F, result.files[1], message)
    ELSE EditInTry(F, "unexpected", NoKeyId, message)

\* ------------------------------------------------------------------ inputs
\* Text of base 0 is all spaces (character 0); the other bases never hold one.
IsSpace(s) == s.len > 0 /\ \A i \in 1..s.len : CharAt(s, i) = 0

TextInputs == { MkStr(0, 3), MkStr(1, TextLimit), MkStr(1, TextLimit + 1) }

\* enhance_prompt_with_gemini: None, or the stripped non-empty answer.
EnhanceResults == { NoStr, MkStr(2, 990), MkStr(2, PromptLimit + 1), MkStr(2, 1200) }


\* describe_image_with_gemini: "vision_blocked", None or the description.
Described(tag, text) == [tag |-> tag, text |-> text]

DescribeResults ==
    { Described("vision_blocked", NoStr), Described("None", NoStr),
      Described("text", MkStr(2, 990)), Described("text", MkStr(2, 1200)) }

CoreTextInputs == { MkStr(1, TextLimit) }

CoreEnhanceResults == { MkStr(2, 990) }

CoreDescribeResults == { Described("None", NoStr), Described("text", MkStr(2, 990)) }

\* The prompts a bare generate() call is tried with.
DirectPrompts == { MkStr(4, 5), MkStr(4, PromptLimit), MkStr(4, 1200) }

KeyPairChoices(m) == { <<>>, <<0>> } \cup { [i \in 1..k |-> i] : k \in 1..m }

\* ------------------------------------------------ FUSION_BRAIN_KEY_PAIRS
\* A pair of variables as os.getenv reads it: None when unset, "" when set
\* to the empty string, "k" when set to a value.
EnvPair(api_key, secret_key) == [api_key |-> api_key, secret_key |-> secret_key]

PairSet == EnvPair("k", "k")
PairUnset == EnvPair(None, None)

\* os.getenv of FUSION_BRAIN_API_KEY_i / FUSION_BRAIN_SECRET_KEY_i.
Getenv(env, i) == IF i \in 1..Len(env.numbered) THEN env.numbered[i] ELSE PairUnset

\* 'if api_key and secret_key': None and "" are false.
HasBoth(pair) == pair.api_key \notin {None, ""} /\ pair.secret_key \notin {None, ""}

ScanSkippingGaps(env, i) ==
    SelectSeq([j \in 1..Len(env.numbered) |-> j],
              LAMBDA j : j >= i /\ HasBoth(Getenv(env, j)))

\* The while loop: the ids appended from index i on, until the first index
\* whose pair is not complete.
RECURSIVE ScanFrom(_, _)
ScanFrom(env, i) ==
    IF HasBoth(Getenv(env, i)) THEN <<i>> \o ScanFrom(env, i + 1) ELSE <<>>

\* The ids of FUSION_BRAIN_KEY_PAIRS after import: the numbered pairs, or
\* else one pair of id 0 from API_KEY/SECRET_KEY or from the unnumbered
\* FUSION_BRAIN names.
LoadKeyPairs(env) ==
    LET numbered == ScanFrom(env, 1) IN
    IF numbered # <<>> THEN numbered
    ELSE IF HasBoth(env.old) THEN <<0>>
    ELSE IF HasBoth(env.std) THEN <<0>>
    ELSE <<>>

\* The environments of m numbered slots, each complete, without its key,
\* with an empty secret or unset, with or without the unnumbered pairs.
Environments(m) ==
    { [numbered |-> num, old |-> o, std |-> sd] :
        num \in [1..m -> {PairSet, EnvPair(None, "k"), EnvPair("k", ""), PairUnset}],
        o \in {PairSet, EnvPair("k", None)},
        sd \in {PairSet, PairUnset} }

\* One environment for each list of key pairs: pairs 1..k set, or only
\* API_KEY/SECRET_KEY, or nothing.
EnvOf(kp, m) ==
    [numbered |-> [i \in 1..m |-> IF i <= Len(kp) /\ kp # <<0>> THEN PairSet ELSE PairUnset],
     old |-> IF kp = <<0>> THEN PairSet ELSE PairUnset,
     std |-> PairUnset]

\* -------------------------------------------------------------------- Init
InitFrom(n, Envs) ==
    /\ environ \in Envs
    /\ keyPairs = LoadKeyPairs(environ)
    /\ mainpc = "start"
    /\ initTask = [c \in Creds |-> "none"]
    /\ pipeline_id = [c \in Creds |-> None]
    /\ fusion_clients = <<>>
    /\ fusion_client_index = 0
    /\ handlers = FALSE
    /\ nUpdates = n
    /\ nextUpdate = 1
    /\ task = [t \in Tasks |-> IdleTask]
    /\ dispatchLog = <<>>

InitWith(n, m) == InitFrom(n, { EnvOf(kp, m) : kp \in KeyPairChoices(m) })

Init == InitWith(MaxTasks, Min(MaxPool, MaxCreds))

InitUnit == InitWith(1, Min(MaxPool, MaxCreds))

InitStartup == InitWith(0, MaxCreds)

InitLoad == InitFrom(0, Environments(MaxCreds))

\* ------------------------------------------------------------------ main()
taskVars == <<nUpdates, nextUpdate, task, dispatchLog>>

\* main() up to "await asyncio.gather": the key check, then
\* initialize_fusion_clients creating one client and one task per pair.
TasksCreatedOneAtATime(n) ==
    [c \in Creds |-> IF c = 1 /\ c <= n THEN "pending" ELSE "none"]

\* The resolution tasks that exist when initialize_fusion_clients reaches
\* gather: the loop over the pairs calls create_task for each and awaits
\* nothing, so all n are started together.
TasksCreated(n) ==
    [c \in Creds |-> IF c <= n THEN "pending" ELSE "none"]

MainStart ==
    /\ mainpc = "start"
    /\ IF keyPairs = <<>>
       THEN /\ mainpc' = "exited"
            /\ UNCHANGED initTask
       ELSE /\ mainpc' = "gather"
            /\ initTask' = TasksCreated(Len(keyPairs))
    /\ UNCHANGED <<environ, keyPairs, pipeline_id, fusion_clients, fusion_client_index,
                   handlers, taskVars>>

\* The init_pipeline task of client c gets its reply and finishes.
ResolveReply(c, R) ==
    /\ mainpc = "gather"
    /\ initTask[c] = "pending"
    /\ \E resp \in R :
         LET r == initialize_pipeline_id(pipeline_id[c], resp) IN
         /\ initTask' = [initTask EXCEPT ![c] = IF r.ok THEN "true" ELSE "false"]
         /\ pipeline_id' = [pipeline_id EXCEPT ![c] = r.id]
    /\ UNCHANGED <<environ, keyPairs, mainpc, fusion_clients, fusion_client_index,
                   handlers, taskVars>>

StartupProceedsAlways(clients) == TRUE

\* "if not fusion_clients: return" in main().
StartupProceeds(clients) == clients # <<>>

\* gather returns: the pool is collected; main() either returns or builds the
\* application, fills bot_data and registers the handlers.
MainGathered ==
    /\ mainpc = "gather"
    /\ \A c \in 1..Len(keyPairs) : initTask[c] \in {"true", "false"}
    /\ LET clients == CollectClients(initTask, Len(keyPairs)) IN
       IF StartupProceeds(clients)
       THEN /\ fusion_clients' = clients
            /\ fusion_client_index' = 0
            /\ handlers' = TRUE
            /\ mainpc' = "serving"
       ELSE /\ mainpc' = "exited"
            /\ UNCHANGED <<fusion_clients, fusion_client_index, handlers>>
    /\ UNCHANGED <<environ, keyPairs, initTask, pipeline_id, taskVars>>

\* ---------------------------------------------------------------- handlers
CanHandleAfterRuns(t) ==
    /\ handlers
    /\ mainpc = "serving"
    /\ t = nextUpdate
    /\ t <= nUpdates
    /\ task[t].pc = "idle"
    /\ \A u \in Tasks : task[u].pc \notin {"created", "resolving", "submitting",
                                           "polling", "sleeping", "present"}

\* The dispatcher takes the next update: the handlers are registered and the
\* update has not been handled yet.
CanHandle(t) ==
    /\ handlers
    /\ mainpc = "serving"
    /\ t = nextUpdate
    /\ t <= nUpdates
    /\ task[t].pc = "idle"

Created(p) == [IdleTask EXCEPT !.pc = "created", !.prompt = p, !.message = StatusMessage]

NoRun == [IdleTask EXCEPT !.pc = "norun"]

\* handle_text_message: the checks, the enrichment, asyncio.create_task.
HandleTextMessage(t, Texts, Enhanced) ==
    /\ CanHandle(t)
    /\ \E original \in Texts, enhanced \in Enhanced :
         task' = [task EXCEPT ![t] =
                    IF IsSpace(original) \/ StrLen(original) > TextLimit
                       \/ fusion_clients = <<>>
                    THEN NoRun
                    ELSE Created(IF enhanced = NoStr THEN original ELSE enhanced)]
    /\ nextUpdate' = nextUpdate + 1
    /\ UNCHANGED <<startupVars, fusion_client_index, nUpdates, dispatchLog>>

\* handle_photo_message: the checks, the download, the description,
\* asyncio.create_task.
HandlePhotoMessage(t, Descriptions) ==
    /\ CanHandle(t)
    /\ \E downloaded \in BOOLEAN, description \in Descriptions :
         task' = [task EXCEPT ![t] =
                    IF fusion_clients = <<>> \/ ~downloaded \/ description.tag # "text"
                    THEN NoRun
                    ELSE Created(description.text)]
    /\ nextUpdate' = nextUpdate + 1
    /\ UNCHANGED <<startupVars, fusion_client_index, nUpdates, dispatchLog>>

\* ------------------------------------------------- FusionBrainAPI.generate
\* generateParams.query of the request: f"{prompt}".
GenerateQuery(prompt) == prompt

\* generate() up to its first await: the pipelines request of the lazy
\* resolution when no pipeline id is stored, else the run request.
GenerateEntry(tk, c, prompt) ==
    IF Falsy(pipeline_id[c])
    THEN [tk EXCEPT !.pc = "resolving", !.selected = c, !.gen_prompt = prompt,
                    !.id_before = pipeline_id[c]]
    ELSE [tk EXCEPT !.pc = "submitting", !.selected = c, !.gen_prompt = prompt,
                    !.id_before = pipeline_id[c], !.posts = 1,
                    !.request = [pipeline_id |-> pipeline_id[c],
                                 query |-> GenerateQuery(prompt)]]

GenerateValueErrorBodyAccepted(resp) ==
    IF resp \in {"uuid", "errorDescription"} THEN "job" ELSE None

\* The value generate() returns for a reply to the run request.
GenerateValue(resp) == IF resp = "uuid" THEN "job" ELSE None

\* ------------------------------------------------------ run_generation_task
KeyOf(c) == IF c \in 1..Len(keyPairs) THEN keyPairs[c] ELSE NoKeyId

InFlight == {"created", "resolving", "submitting", "polling", "sleeping", "present"}

ClientIndexReadLostUpdate(t) ==
    IF dispatchLog # <<>>
       /\ \E u \in Tasks \ {t} : task[u].pc \in InFlight \ {"created"}
    THEN dispatchLog[Len(dispatchLog)] - 1
    ELSE fusion_client_index

\* client_index = context.bot_data.get('fusion_client_index', 0)
ClientIndexRead(t) == fusion_client_index

SelectIndex(client_index, n) == client_index % n

NextIndexStuck(client_index, n) == client_index % n

NextIndexUnbounded(client_index, n) == client_index + 1

NextIndexTwice(client_index, n) == (client_index + 2) % n

NextIndexOneBased(client_index, n) == (client_index % n) + 1

\* The value stored back: (client_index + 1) % len(fusion_clients).
NextIndex(client_index, n) == (client_index + 1) % n

TruncateKeepingEnd(prompt) == SliceSuffix(prompt, PromptLimit)

\* final_prompt_for_fusion = prompt[:1000]
Truncate(prompt) == SlicePrefix(prompt, PromptLimit)

\* The frame once a run has ended: its locals are gone, what it did stays.
Finished(tk, out) ==
    [IdleTask EXCEPT !.pc = "done", !.direct = tk.direct, !.uuid = tk.uuid,
                     !.last = tk.last, !.result = tk.result, !.photo = out.photo,
                     !.message = out.message, !.escaped = out.escaped,
                     !.raised = out.raised, !.id_before = tk.id_before,
                     !.resolved = tk.resolved, !.posts = tk.posts,
                     !.gen_reply = tk.gen_reply]

\* Lines 428-452: the dispatch, the truncation and the call of generate(),
\* up to the first await.
PoolRotatedOnDispatch(pool) ==
    IF pool = <<>> THEN pool ELSE Append(Tail(pool), Head(pool))

\* bot_data['fusion_clients'] after a dispatch: the run reads the list and
\* indexes it, it never assigns, appends to or removes from it.
PoolAfterDispatch(pool) == pool

StartTask(t) ==
    /\ task[t].pc = "created"
    /\ fusion_clients' = PoolAfterDispatch(fusion_clients)
    /\ IF fusion_clients = <<>>
       THEN /\ \E raised \in BOOLEAN :
                 task' = [task EXCEPT ![t] =
                            Finished(@, Outcome(FALSE,
                                IF raised THEN @.message
                                ELSE Msg("unavailable", NoKeyId), FALSE,
                                IF raised THEN {"edit_unavailable"} ELSE {}))]
            /\ UNCHANGED <<fusion_client_index, dispatchLog>>
       ELSE LET n == Len(fusion_clients)
                client_index == ClientIndexRead(t)
                use == SelectIndex(client_index, n)
                tk == [task[t] EXCEPT !.truncLogged = StrLen(task[t].prompt) > PromptLimit]
            IN  /\ fusion_client_index' = NextIndex(client_index, n)
                /\ dispatchLog' = Append(dispatchLog, use + 1)
                /\ task' = [task EXCEPT ![t] =
                              GenerateEntry(tk, fusion_clients[use + 1],
                                            Truncate(tk.prompt))]
    /\ UNCHANGED <<environ, keyPairs, mainpc, initTask, pipeline_id, handlers, nUpdates, nextUpdate>>

\* check_generation() up to its first await.
PollingClientFromCursor(tk) ==
    IF fusion_clients = <<>> THEN tk.selected
    ELSE fusion_clients[SelectIndex(fusion_client_index, Len(fusion_clients)) + 1]

\* The client whose check_generation makes the status queries of a run: the
\* local selected_client bound at dispatch, 'self' inside the loop.
PollingClient(tk) == tk.selected

\* Whether the shared cursor is no longer where the dispatch of this run
\* left it, that is, another run has been dispatched since.
CursorMoved(tk) ==
    /\ ~tk.direct
    /\ \E i \in 1..Len(fusion_clients) :
         /\ fusion_clients[i] = tk.selected
         /\ fusion_client_index # NextIndex(i - 1, Len(fusion_clients))

\* The frame when a status query is sent: who sends it, and, until it is
\* answered, whether the cursor had moved by then.
Queried(tk) ==
    [tk EXCEPT !.polled = @ \cup {PollingClient(tk)}, !.moved = CursorMoved(tk)]

CheckEntry(tk, attempts) ==
    IF LoopGoesOn(0, attempts)
    THEN Queried([tk EXCEPT !.pc = "polling", !.attempts = attempts,
                            !.current_attempt = 1, !.queries = 1])
    ELSE [tk EXCEPT !.pc = "present", !.attempts = attempts,
                    !.result = Result("timeout", <<>>)]

AfterGeneratePollsAnyway(tk, uuid) ==
    IF tk.direct THEN Finished([tk EXCEPT !.uuid = uuid], Outcome(FALSE, NoMessage, FALSE, {}))
    ELSE CheckEntry([tk EXCEPT !.uuid = uuid, !.request = NoRequest,
                               !.gen_prompt = NoStr], MaxAttempts)

\* generate() has returned `uuid` to its caller.
AfterGenerate(tk, uuid) ==
    IF tk.direct THEN Finished([tk EXCEPT !.uuid = uuid], Outcome(FALSE, NoMessage, FALSE, {}))
    ELSE IF uuid = None
         THEN [tk EXCEPT !.pc = "present", !.uuid = uuid, !.request = NoRequest,
                         !.gen_prompt = NoStr]
    ELSE CheckEntry([tk EXCEPT !.uuid = uuid, !.request = NoRequest,
                               !.gen_prompt = NoStr], MaxAttempts)

\* The lazy resolution inside generate() gets its reply.
GenerateResolved(t, R) ==
    /\ task[t].pc = "resolving"
    /\ \E resp \in R :
         LET c == task[t].selected
             r == initialize_pipeline_id(pipeline_id[c], resp)
         IN  /\ pipeline_id' = [pipeline_id EXCEPT ![c] = r.id]
             /\ task' = [task EXCEPT ![t] =
                           IF r.ok
                           THEN [@ EXCEPT !.pc = "submitting", !.resolved = "True",
                                          !.posts = 1,
                                          !.request = [pipeline_id |-> r.id,
                                                       query |-> GenerateQuery(task[t].gen_prompt)]]
                           ELSE AfterGenerate([@ EXCEPT !.resolved = "False"], None)]
    /\ UNCHANGED <<environ, keyPairs, mainpc, initTask, fusion_clients, fusion_client_index,
                   handlers, nUpdates, nextUpdate, dispatchLog>>

\* The run request gets its reply: generate() returns, and the run goes on to
\* the first status request or to the failure message.
GenerateReply(t, R) ==
    /\ task[t].pc = "submitting"
    /\ \E resp \in R :
         task' = [task EXCEPT ![t] =
                    AfterGenerate([@ EXCEPT !.gen_reply = resp], GenerateValue(resp))]
    /\ UNCHANGED <<startupVars, fusion_client_index, nUpdates, nextUpdate, dispatchLog>>

\* A status request gets its reply: one pass of the loop body.
StatusReply(t, R) ==
    /\ task[t].pc = "polling"
    /\ \E resp \in R :
         LET tk == [task[t] EXCEPT !.last = resp, !.moved = FALSE]
             v  == StatusValue(resp)
         IN  task' = [task EXCEPT ![t] =
               IF v # NoResult
               THEN [tk EXCEPT !.pc = "present", !.result = v]
               ELSE IF SleepsAfter(tk.current_attempt, tk.attempts)
                    THEN [tk EXCEPT !.pc = "sleeping", !.sleeps = @ + 1,
                                    !.seen = @ \cup {StatusClass(resp)}]
               ELSE IF LoopGoesOn(tk.current_attempt, tk.attempts)
                    THEN Queried([tk EXCEPT !.pc = "polling", !.current_attempt = @ + 1,
                                            !.queries = @ + 1,
                                            !.seen = @ \cup {StatusClass(resp)}])
               ELSE [tk EXCEPT !.pc = "present", !.result = Result("timeout", <<>>),
                               !.seen = @ \cup {StatusClass(resp)}]]
    /\ UNCHANGED <<startupVars, fusion_client_index, nUpdates, nextUpdate, dispatchLog>>

\* asyncio.sleep(delay) is over: the loop test, then the next status request.
SleepDone(t) ==
    /\ task[t].pc = "sleeping"
    /\ LET tk == task[t] IN
       task' = [task EXCEPT ![t] =
         IF LoopGoesOn(tk.current_attempt, tk.attempts)
         THEN Queried([tk EXCEPT !.pc = "polling", !.current_attempt = @ + 1,
                                 !.queries = @ + 1])
         ELSE [tk EXCEPT !.pc = "present", !.result = Result("timeout", <<>>)]]
    /\ UNCHANGED <<startupVars, fusion_client_index, nUpdates, nextUpdate, dispatchLog>>

\* Lines 453-525 for the value generate() or check_generation() returned.
Presenting(t, FS) ==
    /\ task[t].pc = "present"
    /\ LET tk == task[t] IN
       \E out \in { Present(F, tk.uuid, tk.result, KeyOf(tk.selected), tk.message) :
                     F \in FS } :
         task' = [task EXCEPT ![t] = Finished(tk, out)]
    /\ UNCHANGED <<startupVars, fusion_client_index, nUpdates, nextUpdate, dispatchLog>>

\* A bare call of generate() on a constructed client, outside any run.
DirectGenerate(t, c) ==
    /\ mainpc \in {"serving", "exited"}
    /\ c \in 1..Len(keyPairs)
    /\ t = nextUpdate
    /\ t <= nUpdates
    /\ task[t].pc = "idle"
    /\ \E p \in DirectPrompts :
         task' = [task EXCEPT ![t] = GenerateEntry([IdleTask EXCEPT !.direct = TRUE], c, p)]
    /\ nextUpdate' = nextUpdate + 1
    /\ UNCHANGED <<startupVars, fusion_client_index, nUpdates, dispatchLog>>

\* -------------------------------------------------------------------- Next
\* The whole program, with MaxTasks updates and the core remote replies.
Next ==
    \/ MainStart
    \/ \E c \in Creds : ResolveReply(c, CorePipelineResponses)
    \/ MainGathered
    \/ \E t \in Tasks : HandleTextMessage(t, CoreTextInputs, CoreEnhanceResults)
    \/ \E t \in Tasks : HandlePhotoMessage(t, CoreDescribeResults)
    \/ \E t \in Tasks : StartTask(t)
    \/ \E t \in Tasks : GenerateReply(t, CoreGenerateResponses)
    \/ \E t \in Tasks : StatusReply(t, CoreStatusResponses)
    \/ \E t \in Tasks : SleepDone(t)
    \/ \E t \in Tasks : Presenting(t, CoreFaultSets)

Spec == Init /\ [][Next]_vars

\* One update or one bare client call, with every modelled reply and fault.
NextUnit ==
    \/ MainStart
    \/ \E c \in Creds : ResolveReply(c, UnitPipelineResponses)
    \/ MainGathered
    \/ \E t \in Tasks : HandleTextMessage(t, TextInputs, EnhanceResults)
    \/ \E t \in Tasks : HandlePhotoMessage(t, DescribeResults)
    \/ \E t \in Tasks : StartTask(t)
    \/ \E t \in Tasks : GenerateResolved(t, UnitPipelineResponses)
    \/ \E t \in Tasks : GenerateReply(t, GenerateResponses)
    \/ \E t \in Tasks : StatusReply(t, StatusResponses)
    \/ \E t \in Tasks : SleepDone(t)
    \/ \E t \in Tasks : Presenting(t, FaultSets)
    \/ \E t \in Tasks, c \in Creds : DirectGenerate(t, c)

SpecUnit == InitUnit /\ [][NextUnit]_vars

\* main() up to the registration of the handlers, over MaxCreds credentials
\* and every modelled reply to the pipelines request.
NextStartup ==
    \/ MainStart
    \/ \E c \in Creds : ResolveReply(c, PipelineResponses)
    \/ MainGathered

SpecStartup == InitStartup /\ [][NextStartup]_vars

\* The attempt budgets a bare check_generation() call is tried with.
Budgets == {-1, 0, 1, MaxAttempts}

\* A bare call client.check_generation("job", attempts): up to the first
\* status query, or to the return when the loop is not entered.
DirectCheck(t, c, B) ==
    /\ mainpc \in {"serving", "exited"}
    /\ c \in 1..Len(keyPairs)
    /\ t = nextUpdate
    /\ t <= nUpdates
    /\ task[t].pc = "idle"
    /\ \E attempts \in B :
         task' = [task EXCEPT ![t] =
                    CheckEntry([IdleTask EXCEPT !.direct = TRUE, !.selected = c,
                                                !.uuid = "job"], attempts)]
    /\ nextUpdate' = nextUpdate + 1
    /\ UNCHANGED <<startupVars, fusion_client_index, nUpdates, dispatchLog>>

\* The caller of a bare check_generation() call takes the returned value.
DirectReturn(t) ==
    /\ task[t].pc = "present"
    /\ task[t].direct
    /\ task' = [task EXCEPT ![t] = Finished(@, Outcome(FALSE, NoMessage, FALSE, {}))]
    /\ UNCHANGED <<startupVars, fusion_client_index, nUpdates, nextUpdate, dispatchLog>>

\* Startup followed by one bare check_generation() call.
NextPoll ==
    \/ MainStart
    \/ \E c \in Creds : ResolveReply(c, CorePipelineResponses)
    \/ MainGathered
    \/ \E t \in Tasks, c \in Creds : DirectCheck(t, c, Budgets)
    \/ \E t \in Tasks : StatusReply(t, StatusResponses)
    \/ \E t \in Tasks : SleepDone(t)
    \/ \E t \in Tasks : DirectReturn(t)

SpecPoll == InitUnit /\ [][NextPoll]_vars

\* A step of run t, or of the bare generate() call t: the event loop resumes
\* it when the call it awaits has returned or raised. The presentation step
\* without faults stands for all of them: it is enabled exactly when they
\* are, and any of them ends its being enabled.
RunStep(t) ==
    \/ StartTask(t)
    \/ GenerateResolved(t, UnitPipelineResponses)
    \/ GenerateReply(t, GenerateResponses)
    \/ StatusReply(t, StatusResponses)
    \/ SleepDone(t)
    \/ Presenting(t, {{}})

\* One status reply of each kind check_generation tells apart: the three
\* ways of raising, pending, unknown, FAIL, DONE without result, censored,
\* with an empty list, with a payload that does not decode, with an image.
RunStatusResponses ==
    { StatusRaise("Timeout"), StatusRaise("RequestException"), StatusRaise("Exception"),
      StatusOnly("PROCESSING"), StatusOnly("QUEUED"), StatusOnly("FAIL"),
      StatusBody("DONE", "null", FALSE, Files("absent", <<>>)),
      StatusBody("DONE", "dict", TRUE, Files("list", <<PayloadABC>>)),
      StatusBody("DONE", "dict", FALSE, Files("list", <<>>)),
      StatusBody("DONE", "dict", FALSE, Files("list", <<PayloadBadPadding>>)),
      DoneOk }

\* No Telegram call raises, one of them does, all of them do.
RunFaultSets == {{}, Sites} \cup { {site} : site \in Sites }

\* One update and its run, from startup to the end of the presentation.
NextRun ==
    \/ MainStart
    \/ \E c \in Creds : ResolveReply(c, UnitPipelineResponses)
    \/ MainGathered
    \/ \E t \in Tasks : HandleTextMessage(t, CoreTextInputs, CoreEnhanceResults)
    \/ \E t \in Tasks : HandlePhotoMessage(t, CoreDescribeResults)
    \/ \E t \in Tasks : StartTask(t)
    \/ \E t \in Tasks : GenerateResolved(t, UnitPipelineResponses)
    \/ \E t \in Tasks : GenerateReply(t, GenerateResponses)
    \/ \E t \in Tasks : StatusReply(t, RunStatusResponses)
    \/ \E t \in Tasks : SleepDone(t)
    \/ \E t \in Tasks : Presenting(t, RunFaultSets)

\* The run where every call it awaits returns or raises.
SpecRun == InitUnit /\ [][NextRun]_vars /\ \A t \in Tasks : WF_vars(RunStep(t))

\* Import under every environment, then startup.
NextLoad ==
    \/ MainStart
    \/ \E c \in Creds : ResolveReply(c, CorePipelineResponses)
    \/ MainGathered

SpecLoad == InitLoad /\ [][NextLoad]_vars

\* Startup followed by concurrent bare generate() calls on the clients,
\* whether or not their startup resolution succeeded.
NextGenerate ==
    \/ MainStart
    \/ \E c \in Creds : ResolveReply(c, CorePipelineResponses)
    \/ MainGathered
    \/ \E t \in Tasks, c \in Creds : DirectGenerate(t, c)
    \/ \E t \in Tasks : GenerateResolved(t, CorePipelineResponses)
    \/ \E t \in Tasks : GenerateReply(t, CoreGenerateResponses)

SpecGenerate == Init /\ [][NextGenerate]_vars

\* ================================================================== claims
PoolSize == Len(fusion_clients)

Dispatched(t) == task[t].pc \in {"resolving", "submitting", "polling", "sleeping", "present"}

\* C1: with a pool of P >= 1 clients, every P consecutive dispatches (the
\* first P after startup among them) select each pool position, hence each
\* client, exactly once.
C1_RoundRobinCoverage ==
    PoolSize >= 1 =>
      /\ \A i, j \in 1..PoolSize : fusion_clients[i] = fusion_clients[j] => i = j
      /\ \A i \in 1..(Len(dispatchLog) - PoolSize + 1) :
           { dispatchLog[j] : j \in i..(i + PoolSize - 1) } = 1..PoolSize

C1_Witness ==
    /\ PoolSize = 2
    /\ Len(dispatchLog) = 2
    /\ dispatchLog[1] # dispatchLog[2]
    /\ \E t, u \in Tasks :
         /\ task[t].pc = "done" /\ task[t].photo
         /\ task[u].pc = "submitting" /\ task[u].selected = fusion_clients[2]

\* C2: whatever runs are in flight, the clients selected so far are those of
\* a strictly serialized round-robin in dispatch order, and the stored cursor
\* has advanced once per dispatch: no dispatch repeats the cursor value that
\* another one read.
C2_SerializedDispatch ==
    PoolSize >= 1 =>
      /\ \A i \in 1..Len(dispatchLog) : dispatchLog[i] = ((i - 1) % PoolSize) + 1
      /\ fusion_client_index = Len(dispatchLog) % PoolSize
      /\ \A t, u \in Tasks :
           (t # u /\ Dispatched(t) /\ Dispatched(u) /\ Len(dispatchLog) <= PoolSize)
              => task[t].selected # task[u].selected

C2_Witness ==
    /\ PoolSize = 2
    /\ \E t, u \in Tasks :
         /\ t # u
         /\ task[t].pc \in {"polling", "sleeping"}
         /\ task[u].pc = "submitting"
         /\ task[t].selected # task[u].selected

OnlyPendingBefore(t) == task[t].seen \subseteq {"pending"}

IsImagesReply(r) ==
    /\ r.kind = "ok" /\ r.status = "DONE" /\ r.result = "dict" /\ ~r.censored
    /\ r.files.shape = "list" /\ r.files.items # <<>>

\* C3: when the replies to attempts 1..k-1 are INITIAL/PROCESSING and the
\* k-th (k <= N) is DONE with a non-empty uncensored image list,
\* check_generation returns that list after exactly k queries and k-1
\* sleeps, also for k = N.
C3_DoneOnAttemptK ==
    \A t \in Tasks :
      (task[t].pc = "present" /\ task[t].uuid # None /\ OnlyPendingBefore(t)
         /\ IsImagesReply(task[t].last))
      => /\ task[t].result = Result("files", task[t].last.files.items)
         /\ task[t].queries = task[t].current_attempt
         /\ task[t].queries <= task[t].attempts
         /\ task[t].sleeps = task[t].queries - 1
         /\ Cardinality(task[t].seen) = (IF task[t].queries > 1 THEN 1 ELSE 0)

C3_Witness ==
    \E t \in Tasks :
      /\ task[t].pc = "present" /\ OnlyPendingBefore(t)
      /\ IsImagesReply(task[t].last)
      /\ task[t].queries = MaxAttempts
      /\ task[t].sleeps = MaxAttempts - 1
      /\ task[t].result.kind = "files"

\* C4: with a budget N >= 1 and every reply pending, check_generation returns
\* Timeout after exactly N queries and N-1 sleeps; no (N+1)-th query is made.
C4_TimeoutAfterBudget ==
    \A t \in Tasks :
      /\ task[t].queries <= task[t].attempts
      /\ task[t].sleeps <= task[t].queries
      /\ (task[t].pc = "present" /\ task[t].uuid # None /\ task[t].seen = {"pending"}
            /\ StatusClass(task[t].last) = "pending")
         => /\ task[t].result.kind = "timeout"
            /\ task[t].queries = task[t].attempts
            /\ task[t].sleeps = task[t].attempts - 1

C4_Witness ==
    \E t \in Tasks :
      /\ task[t].pc = "present" /\ task[t].seen = {"pending"}
      /\ task[t].result.kind = "timeout"
      /\ task[t].attempts = MaxAttempts
      /\ task[t].queries = MaxAttempts

IsCensoredReply(r) ==
    r.kind = "ok" /\ r.status = "DONE" /\ r.result = "dict" /\ r.censored

\* C5: a DONE reply flagged censored makes check_generation return Censored,
\* never the images, even when it carries a well-formed image list; the run
\* then sends no photo.
C5_CensoredNeverImages ==
    \A t \in Tasks :
      IsCensoredReply(task[t].last)
      => /\ task[t].pc \in {"present", "done"}
         /\ task[t].result = Result("censored", <<>>)
         /\ ~task[t].photo
         /\ task[t].message.text \in {"status", "censored", "critical"}

C5_Witness ==
    \E t \in Tasks :
      /\ task[t].pc = "done"
      /\ IsCensoredReply(task[t].last)
      /\ task[t].last.files = Files("list", <<PayloadABC>>)
      /\ task[t].message.text = "censored"

\* A generate() call that has sent its run request and awaits the reply.
Submitting(t) == task[t].pc = "submitting"

DecodeFails(r) ==
    /\ r.kind = "files" /\ Len(r.files) > 0
    /\ r.files[1].isstr
    /\ LET dec == b64decode(r.files[1]) IN
         dec.err = "binascii.Error" \/ dec.bytes = <<>>

ErrorTexts == {"error", "decode_error", "critical"}

\* C7 as stated: a first payload that fails to decode ends the run with an
\* error message shown to the user, no photo sent and nothing escaping.
C7_DecodeFailureReported ==
    \A t \in Tasks :
      (task[t].pc = "done" /\ DecodeFails(task[t].result))
      => /\ task[t].message.text \in ErrorTexts
         /\ ~task[t].photo
         /\ ~task[t].escaped

\* C7: a first payload that fails to decode ends the run with no photo sent
\* and nothing escaping; the status message becomes the decode-error text,
\* or the generic error text when that edit raises, and is left as it was
\* (nothing is reported) when the edit of the outer handler raises as well.
C7_DecodeFailureReportedOrDropped ==
    \A t \in Tasks :
      (task[t].pc = "done" /\ DecodeFails(task[t].result))
      => /\ ~task[t].photo
         /\ ~task[t].escaped
         /\ "b64decode" \in task[t].raised
         /\ task[t].message =
              IF "edit_decode" \notin task[t].raised THEN Msg("decode_error", NoKeyId)
              ELSE IF "edit_critical" \notin task[t].raised THEN Msg("critical", NoKeyId)
              ELSE StatusMessage

C7_Witness ==
    \E t \in Tasks :
      /\ task[t].pc = "done"
      /\ task[t].result = Result("files", <<PayloadBadPadding>>)
      /\ task[t].message = Msg("decode_error", NoKeyId)

Succeeded == { c \in 1..Len(keyPairs) : initTask[c] = "true" }

\* C8: the pool main() serves with holds exactly the clients whose own
\* initialize_pipeline_id returned True, in configuration order; it is
\* non-empty, and startup is given up only when no resolution succeeded.
C8_PoolIsTheSuccesses ==
    /\ mainpc = "serving" =>
         /\ { fusion_clients[i] : i \in 1..PoolSize } = Succeeded
         /\ \A i, j \in 1..PoolSize : i < j => fusion_clients[i] < fusion_clients[j]
         /\ PoolSize >= 1
         /\ \A i \in 1..PoolSize : pipeline_id[fusion_clients[i]] # None
    /\ (mainpc = "exited" /\ keyPairs # <<>>) => Succeeded = {}

C8_Witness ==
    /\ mainpc = "serving"
    /\ Len(keyPairs) = 3
    /\ initTask[2] = "false"
    /\ fusion_clients = <<1, 3>>

\* C9: when every resolution fails main() returns with no handler registered
\* and no run ever dispatched; whenever a handler is registered or a run
\* exists, the pool holds at least one client.
C9_NoPoolNoService ==
    /\ (mainpc = "exited") =>
         /\ ~handlers
         /\ fusion_clients = <<>>
         /\ dispatchLog = <<>>
         /\ \A t \in Tasks : task[t].pc = "idle"
    /\ (handlers \/ dispatchLog # <<>> \/ \E t \in Tasks : task[t].pc # "idle") =>
         /\ mainpc = "serving"
         /\ PoolSize >= 1

C9_Witness ==
    /\ mainpc = "exited"
    /\ Len(keyPairs) = 2
    /\ \A c \in 1..Len(keyPairs) : initTask[c] = "false"

ReportTexts ==
    {"submit_failed", "error", "timeout", "censored", "unexpected", "decode_error",
     "send_error", "critical", "deleted"}

\* C10: nothing raised while submitting, polling, decoding, sending or
\* editing leaves run_generation_task: the run finishes, and when a Telegram
\* call or the decoding raised, the status message holds an error text or,
\* the edit of the handler having raised too, is left as it was.
C10_NothingEscapes ==
    \A t \in Tasks :
      /\ ~task[t].escaped
      /\ (task[t].pc = "done" /\ ~task[t].direct) =>
           /\ task[t].message.text \in ReportTexts \cup {"status"}
           /\ task[t].raised # {} =>
                \/ task[t].message.text \in {"decode_error", "send_error", "critical"}
                \/ /\ task[t].message = StatusMessage
                   /\ task[t].raised \cap {"edit_critical", "edit_send"} # {}
           /\ task[t].message = StatusMessage => task[t].raised # {}

C10_Witness ==
    \E t \in Tasks :
      /\ task[t].pc = "done"
      /\ task[t].raised = {"b64decode", "edit_decode", "edit_critical"}
      /\ task[t].message = StatusMessage
      /\ ~task[t].escaped

\* The texts run_generation_task can put into the status message as the
\* outcome of a run.
OutcomeTexts == ReportTexts \ {"deleted"}

HasOutcomeMessage(t) == task[t].message.text \in OutcomeTexts

\* C11 as stated: every finished run has given the user exactly one of a
\* photo and an outcome message, never both and never neither, whichever
\* presentation call raised.
C11_ExactlyOneOutcome ==
    \A t \in Tasks :
      (task[t].pc = "done" /\ ~task[t].direct)
      => (task[t].photo /\ ~HasOutcomeMessage(t)) \/ (~task[t].photo /\ HasOutcomeMessage(t))

\* The run sent the photo, the deletion of the status message raised, and the
\* handler then wrote the could-not-send text into the status message.
C11_PhotoAndErrorMessage ==
    \E t \in Tasks :
      /\ task[t].pc = "done"
      /\ task[t].photo
      /\ task[t].raised = {"delete"}
      /\ task[t].message = Msg("send_error", NoKeyId)

\* generate() has returned None to the run of task t.
SubmissionFailed(t) ==
    /\ ~task[t].direct
    /\ task[t].pc \in {"present", "done"}
    /\ task[t].uuid = None

\* C12: when generate() returns None the run makes no status query, is not
\* dispatched again to another client, and ends with the could-not-start
\* message carrying the key id of the client the dispatch selected (the
\* generic error text, or no change, when that edit raises).
C12_SubmissionFailedEndsRun ==
    \A t \in Tasks :
      SubmissionFailed(t) =>
        /\ task[t].last = NoReply
        /\ task[t].result = NoResult
        /\ Len(dispatchLog) = 1
        /\ task[t].pc = "present" =>
             /\ task[t].queries = 0 /\ task[t].sleeps = 0
             /\ task[t].selected = fusion_clients[dispatchLog[1]]
        /\ task[t].pc = "done" =>
             /\ ~task[t].photo
             /\ task[t].message =
                  IF task[t].raised = {}
                  THEN Msg("submit_failed", KeyOf(fusion_clients[dispatchLog[1]]))
                  ELSE IF "edit_critical" \in task[t].raised THEN StatusMessage
                  ELSE Msg("critical", NoKeyId)

C12_Witness ==
    \E t \in Tasks :
      /\ task[t].pc = "done" /\ ~task[t].direct
      /\ task[t].uuid = None
      /\ fusion_clients = <<2>>
      /\ task[t].message = Msg("submit_failed", 2)

\* The run of task t is waiting on its submit call, a status query or the
\* delay between two attempts.
Waiting(t) == task[t].pc \in {"submitting", "polling", "sleeping"}

\* C13: while a run is waiting on its submit call, a status query or the
\* delay, nothing else is held up: the handler of the next update can run
\* (it returned after create_task without awaiting the run), and every other
\* run can take its next step, be it its dispatch, the reply to its submit
\* call, the reply to a status query or the end of its delay.
C13_WaitingRunBlocksNothing ==
    \A t, u \in Tasks :
      (t # u /\ Waiting(t)) =>
        /\ nextUpdate > t
        /\ (u = nextUpdate /\ u <= nUpdates)
             => /\ ENABLED HandleTextMessage(u, CoreTextInputs, CoreEnhanceResults)
                /\ ENABLED HandlePhotoMessage(u, CoreDescribeResults)
        /\ task[u].pc = "created" => ENABLED StartTask(u)
        /\ task[u].pc = "submitting" => ENABLED GenerateReply(u, CoreGenerateResponses)
        /\ task[u].pc = "polling" => ENABLED StatusReply(u, CoreStatusResponses)
        /\ task[u].pc = "sleeping" => ENABLED SleepDone(u)

C13_Witness ==
    /\ dispatchLog = <<1, 2>>
    /\ task[1].pc = "sleeping"
    /\ task[1].selected = fusion_clients[1]
    /\ task[2].pc = "done"
    /\ task[2].photo

\* A step in which a run is dispatched.
DispatchStep == Len(dispatchLog') = Len(dispatchLog) + 1

\* C14 as stated: the cursor never decreases, and every dispatch raises its
\* value by exactly one.
C14_CursorMonotone ==
    [][ /\ fusion_client_index' >= fusion_client_index
        /\ DispatchStep => fusion_client_index' = fusion_client_index + 1 ]_vars

\* C14: the cursor is a counter modulo the pool size P: it stays within
\* 0..P-1, every dispatch replaces it by (cursor + 1) mod P (back to 0 after
\* P-1, unchanged when P = 1), and no other step changes it.
C14_CursorAdvancesModuloPool ==
    [][ /\ DispatchStep =>
             /\ fusion_client_index < PoolSize
             /\ fusion_client_index' = (fusion_client_index + 1) % PoolSize
        /\ ~DispatchStep => fusion_client_index' = fusion_client_index ]_vars

C14_Witness ==
    /\ PoolSize = 2
    /\ Len(dispatchLog) = 2
    /\ fusion_client_index = 0
    /\ \A t \in Tasks : task[t].pc = "done"

\* The runs that have passed their dispatch step.
DispatchedRuns ==
    { t \in Tasks : ~task[t].direct
                    /\ task[t].pc \in {"resolving", "submitting", "polling",
                                       "sleeping", "present", "done"} }

\* C15: the cursor is advanced once per run, at the dispatch before the
\* submission, and however the run goes on or ends (submission failed,
\* error, timeout, censored, decode failure, caught exception) the cursor
\* still equals the number of dispatched runs modulo the pool size.
C15_AdvanceOncePerRun ==
    mainpc = "serving" =>
      /\ Len(dispatchLog) = Cardinality(DispatchedRuns)
      /\ fusion_client_index = Len(dispatchLog) % PoolSize
      /\ \A t \in Tasks : task[t].pc = "created" => t \notin DispatchedRuns

C15_Witness ==
    \E t \in Tasks :
      /\ task[t].pc = "done" /\ ~task[t].direct
      /\ task[t].raised = {"b64decode", "edit_decode"}
      /\ task[t].message.text = "critical"
      /\ PoolSize = 2
      /\ fusion_client_index = 1

\* A reply with status FAIL, or DONE with an uncensored result whose 'files'
\* is missing, empty or not a list.
IsFailedReply(r) ==
    /\ r.kind = "ok"
    /\ \/ r.status = "FAIL"
       \/ /\ r.status = "DONE" /\ r.result = "dict" /\ ~r.censored
          /\ \/ r.files.shape \in {"absent", "other"}
             \/ r.files.shape = "list" /\ r.files.items = <<>>

\* C16: a FAIL reply, or a DONE reply with an uncensored result and no usable
\* image list, ends check_generation at once with "error": the run is never
\* polling or sleeping after it, and no query or delay follows the attempt
\* that received it.
C16_FailedReplyEndsPolling ==
    \A t \in Tasks :
      IsFailedReply(task[t].last) =>
        /\ task[t].pc \in {"present", "done"}
        /\ task[t].result = Result("error", <<>>)
        /\ ~task[t].photo
        /\ task[t].pc = "present" =>
             /\ task[t].queries = task[t].current_attempt
             /\ task[t].queries <= task[t].attempts
             /\ task[t].sleeps = task[t].queries - 1

C16_Witness ==
    \E t \in Tasks :
      /\ task[t].pc = "present"
      /\ task[t].last = StatusBody("DONE", "dict", FALSE, Files("list", <<>>))
      /\ task[t].queries = 1 /\ task[t].sleeps = 0
      /\ task[t].attempts = MaxAttempts
      /\ task[t].result.kind = "error"

IsTransient(r) == r.kind \in {"Timeout", "RequestException"}

\* C17: a Timeout or RequestException on a status query uses up one attempt
\* and polling goes on, after the delay when attempts remain, so a run whose
\* every query fails that way returns "timeout" after exactly N queries and
\* N-1 delays; any other exception ends polling at once with "error",
\* whatever attempts remain.
C17_TransientRetriedOtherFatal ==
    \A t \in Tasks :
      /\ task[t].pc = "polling" =>
           task[t].queries = task[t].current_attempt /\ task[t].sleeps = task[t].queries - 1
      /\ (task[t].pc = "sleeping" /\ IsTransient(task[t].last)) =>
           /\ task[t].queries = task[t].current_attempt
           /\ task[t].sleeps = task[t].queries
           /\ task[t].queries < task[t].attempts
      /\ (task[t].pc = "present" /\ IsTransient(task[t].last)) =>
           /\ task[t].result = Result("timeout", <<>>)
           /\ task[t].queries = task[t].attempts
           /\ task[t].sleeps = task[t].attempts - 1
      /\ task[t].last.kind = "Exception" =>
           /\ task[t].pc \in {"present", "done"}
           /\ task[t].result = Result("error", <<>>)
           /\ task[t].pc = "present" =>
                /\ task[t].queries = task[t].current_attempt
                /\ task[t].queries <= task[t].attempts
                /\ task[t].sleeps = task[t].queries - 1

C17_Witness ==
    \E t \in Tasks :
      /\ task[t].pc = "present"
      /\ task[t].seen = {"transient"}
      /\ task[t].last.kind = "RequestException"
      /\ task[t].result.kind = "timeout"
      /\ task[t].queries = MaxAttempts
      /\ task[t].sleeps = MaxAttempts - 1

\* A status query raised an exception that is no RequestException while
\* attempts remained, and polling ended there.
C17_WitnessOtherException ==
    \E t \in Tasks :
      /\ task[t].pc = "present"
      /\ task[t].last.kind = "Exception"
      /\ task[t].queries = 1
      /\ task[t].attempts = MaxAttempts

\* The pipeline records of the modelled listings, and the record an id names
\* (the ids of the listings are distinct).
ListedPipes == UNION { { l[i] : i \in 1..Len(l) } : l \in Listings }

PipeOfId(id) == CHOOSE p \in ListedPipes : p.id = id

ListedVersions == { p.version : p \in ListedPipes } \ {NoKey}

\* C18 as stated: there is an expected version such that every identifier a
\* client has stored names an active text-to-image pipeline of that version,
\* or one listed without a version.
C18_SelectsByVersion ==
    \E v \in ListedVersions :
      \A c \in Creds :
        pipeline_id[c] # None =>
          /\ IsActiveT2I(PipeOfId(pipeline_id[c]))
          /\ PipeOfId(pipeline_id[c]).version \in {v, NoKey}

\* Two clients hold text-to-image pipelines of different versions, one of
\* them taken from a listing that also offered the other's version.
C18_TwoVersionsStored ==
    /\ pipeline_id[1] = "p1"
    /\ pipeline_id[2] = "p2"
    /\ PipeOfId("p1").version # PipeOfId("p2").version

\* A step in which the startup resolution of client c returns.
StartupResolutionReturns(c) == initTask[c] = "pending" /\ initTask'[c] # "pending"

\* A step in which the resolution made inside generate() by task t returns.
LazyResolutionReturns(t) == task[t].pc = "resolving" /\ task'[t].pc # "resolving"

\* C19: initialize_pipeline_id always returns True or False, never an
\* exception, to gather at startup as well as to generate(); when it returns
\* False the client's stored pipeline_id is what it was before the call, and
\* a stored identifier always names a listed active text-to-image pipeline.
C19_ResolutionNeverRaises ==
    /\ [](\A c \in Creds : pipeline_id[c] # None => IsActiveT2I(PipeOfId(pipeline_id[c])))
    /\ [][ /\ \A c \in Creds :
                StartupResolutionReturns(c) =>
                  /\ initTask'[c] \in {"true", "false"}
                  /\ initTask'[c] = "false" => pipeline_id'[c] = pipeline_id[c]
                  /\ initTask'[c] = "true" => pipeline_id'[c] # None
           /\ \A t \in Tasks :
                LazyResolutionReturns(t) =>
                  /\ task'[t].resolved \in {"True", "False"}
                  /\ ~task'[t].escaped
                  /\ task'[t].resolved = "False" =>
                       /\ pipeline_id'[task[t].selected] = pipeline_id[task[t].selected]
                       /\ task'[t].uuid = None
                       /\ task'[t].posts = 0 ]_vars

C19_Witness ==
    \E t \in Tasks :
      /\ task[t].pc = "present"
      /\ task[t].resolved = "False"
      /\ task[t].id_before = ""
      /\ pipeline_id[task[t].selected] = ""

\* generate() has been entered by task t.
InGenerateOrAfter(t) == task[t].pc \notin {"idle", "created", "norun"}

\* C20: a generate() call that finds no pipeline id stored (None or '') makes
\* exactly one resolution attempt before anything else; when the attempt
\* fails it returns None and no run request is sent, when it succeeds the one
\* run request carries the identifier just stored; a call that finds an id
\* makes no resolution attempt.
C20_OneResolutionBeforeSubmit ==
    \A t \in Tasks :
      InGenerateOrAfter(t) =>
        /\ task[t].posts <= 1
        /\ (task[t].resolved # "none") <=>
             (task[t].id_before \in {None, ""} /\ task[t].pc # "resolving")
        /\ task[t].pc = "resolving" => task[t].posts = 0
        /\ task[t].resolved = "False" =>
             /\ task[t].posts = 0
             /\ task[t].uuid = None
             /\ task[t].pc \in {"present", "done"}
        /\ task[t].resolved = "True" => task[t].posts = 1
        /\ (task[t].pc = "submitting" /\ task[t].resolved = "True") =>
             /\ task[t].request.pipeline_id = pipeline_id[task[t].selected]
             /\ task[t].request.pipeline_id # None
        /\ task[t].pc = "submitting" => task[t].posts = 1

C20_Witness ==
    \E t \in Tasks :
      /\ task[t].pc = "submitting"
      /\ task[t].direct
      /\ task[t].id_before = None
      /\ task[t].resolved = "True"
      /\ task[t].request.pipeline_id = "p1"

\* C21 as stated: every run request that is sent carries a pipeline id that
\* is neither None nor empty, stored by a successful resolution of the
\* client that sends it.
C21_RequestHasResolvedId ==
    \A t \in Tasks :
      task[t].pc = "submitting" =>
        /\ task[t].request.pipeline_id \notin {None, ""}
        /\ task[t].request.pipeline_id = pipeline_id[task[t].selected]

\* A run request is sent with the empty pipeline id: the resolution inside
\* generate() returned True on a listing whose active text-to-image entry has
\* the id ''.
C21_EmptyIdSubmitted ==
    \E t \in Tasks :
      /\ task[t].pc = "submitting"
      /\ task[t].resolved = "True"
      /\ task[t].request.pipeline_id = ""

\* The replies to the run request that carry no job identifier: a body with
\* errorDescription, with pipeline_status or with neither, a Timeout, another
\* RequestException (network error, non-2xx), any other exception.
FailedSubmitReplies == GenerateResponses \ {"uuid"}

\* C22: once the run request is answered generate() has returned, with the
\* job identifier for a body that holds 'uuid' and with None for every other
\* reply; nothing is raised into the caller, which on None has made no
\* status query.
C22_GenerateReturnsIdOrNone ==
    \A t \in Tasks :
      task[t].gen_reply # "none" =>
        /\ task[t].pc \in {"polling", "sleeping", "present", "done"}
        /\ ~task[t].escaped
        /\ task[t].gen_reply = "uuid" => task[t].uuid = "job"
        /\ task[t].gen_reply \in FailedSubmitReplies =>
             /\ task[t].uuid = None
             /\ task[t].last = NoReply
             /\ task[t].pc \in {"present", "done"}

C22_Witness ==
    \E t \in Tasks :
      /\ task[t].pc = "done"
      /\ ~task[t].direct
      /\ task[t].gen_reply = "pipeline_status"
      /\ task[t].uuid = None
      /\ task[t].message.text = "submit_failed"

\* C23: once main() has stored the pool in bot_data no step changes it: no
\* dispatch, reply, delay, presentation or handler adds, removes or reorders
\* a client, and the pool stays the list of the clients whose startup
\* resolution returned True, so a client that failed then never enters it.
C23_PoolImmutableAfterStartup ==
    /\ [](mainpc = "serving" =>
            /\ fusion_clients = CollectClients(initTask, Len(keyPairs))
            /\ \A c \in Creds :
                 initTask[c] = "false" => \A i \in 1..Len(fusion_clients) : fusion_clients[i] # c)
    /\ [][mainpc = "serving" => fusion_clients' = fusion_clients]_vars

C23_Witness ==
    /\ mainpc = "serving"
    /\ Len(fusion_clients) = 2
    /\ Len(dispatchLog) = 2
    /\ \E t \in Tasks : task[t].pc = "done" /\ task[t].message.text = "submit_failed"
    /\ \E t \in Tasks : task[t].pc = "done" /\ task[t].photo

C23_WitnessFailedClientKeptOut ==
    /\ mainpc = "serving"
    /\ \E c \in Creds : initTask[c] = "false"
    /\ \E t \in Tasks : task[t].pc = "done" /\ task[t].selected = 0 /\ Len(dispatchLog) >= 1

\* C24: when initialize_fusion_clients waits in gather the resolution task of
\* every credential has been started; each one still running can return
\* whatever the others have done, a return of one (True or False) changes no
\* other task, and gather is left only when all of them have returned.
C24_ResolutionsRunConcurrently ==
    /\ [](mainpc = "gather" =>
            \A c \in 1..Len(keyPairs) :
              /\ initTask[c] \in {"pending", "true", "false"}
              /\ initTask[c] = "pending" => ENABLED ResolveReply(c, PipelineResponses))
    /\ [][ /\ \A c \in Creds :
                StartupResolutionReturns(c) =>
                  \A d \in Creds \ {c} : initTask'[d] = initTask[d]
           /\ (mainpc = "gather" /\ mainpc' # "gather") =>
                \A c \in 1..Len(keyPairs) : initTask[c] \in {"true", "false"} ]_vars

C24_Witness ==
    /\ mainpc = "gather"
    /\ Len(keyPairs) = 3
    /\ initTask[1] = "pending"
    /\ initTask[2] = "false"
    /\ initTask[3] = "true"

\* C25: of the generate() calls in flight on one client at most one is
\* inside the resolution it started because it found no identifier stored.
C25_OneResolutionPerClient ==
    \A t, u \in Tasks :
      (t # u /\ task[t].pc = "resolving" /\ task[u].pc = "resolving") =>
        task[t].selected # task[u].selected

\* Two generate() calls on one client have both found no identifier stored
\* and have both started a resolution: one has returned True and stored the
\* identifier while the listing request of the other is still in flight.
C25_BothCallsResolve ==
    \E t, u \in Tasks :
      /\ t # u
      /\ task[t].selected = task[u].selected
      /\ task[t].id_before = None /\ task[u].id_before = None
      /\ task[t].pc = "resolving"
      /\ task[u].pc = "submitting" /\ task[u].resolved = "True"
      /\ pipeline_id[task[t].selected] = "p1"

\* A string produced by the enhancement or the description call (text 2),
\* as opposed to what the user typed (texts 0 and 1).
IsEnriched(str) == str.base = 2

\* C26: a run created by a handler holds a prompt that the enhancement or
\* the description call returned, never the text the user sent.
C26_RunOnlyWithEnrichedPrompt ==
    \A t \in Tasks :
      (~task[t].direct /\ task[t].pc = "created") => IsEnriched(task[t].prompt)

\* A run was created with the user's own text after the enhancement gave
\* nothing, and its run request carries that text as the query.
C26_OriginalTextSubmitted ==
    \E t \in Tasks :
      /\ ~task[t].direct
      /\ task[t].pc = "submitting"
      /\ ~IsEnriched(task[t].request.query)
      /\ task[t].request.query = MkStr(1, TextLimit)

\* The first index whose numbered pair is not complete in the environment.
FirstGap ==
    CHOOSE i \in 1..(Len(environ.numbered) + 1) :
      /\ ~HasBoth(Getenv(environ, i))
      /\ \A j \in 1..(i - 1) : HasBoth(Getenv(environ, j))

StatusAnswered(t) == task[t].pc = "polling" /\ task'[t] # task[t]

\* C28: a 2xx status reply whose status is none of DONE, FAIL, INITIAL,
\* PROCESSING, or is missing, is handled as a pending one: it uses up its
\* attempt, is followed by the delay when attempts remain and by Timeout when
\* none does, and never gives "error"; when every query of the budget got
\* such a reply the result is Timeout after max_attempts queries.
C28_UnknownStatusKeepsPolling ==
    /\ [](\A t \in Tasks :
            (task[t].pc = "present" /\ task[t].uuid # None
               /\ task[t].seen = {"unknown"} /\ StatusClass(task[t].last) = "unknown")
            => /\ task[t].result.kind = "timeout"
               /\ task[t].queries = task[t].attempts
               /\ task[t].sleeps = task[t].attempts - 1)
    /\ [][\A t \in Tasks :
            (StatusAnswered(t) /\ StatusClass(task'[t].last) = "unknown") =>
               /\ task'[t].queries = task[t].queries
               /\ task'[t].current_attempt = task[t].current_attempt
               /\ IF task[t].current_attempt < task[t].attempts
                  THEN /\ task'[t].pc = "sleeping"
                       /\ task'[t].sleeps = task[t].sleeps + 1
                       /\ task'[t].result = NoResult
                  ELSE /\ task'[t].pc = "present"
                       /\ task'[t].result.kind = "timeout"]_vars

C28_Witness ==
    \E t \in Tasks :
      /\ task[t].pc = "done"
      /\ task[t].last = StatusOnly(None)
      /\ task[t].result.kind = "timeout"
      /\ task[t].message.text = "timeout"

C28_WitnessAllUnknown ==
    \E t \in Tasks :
      /\ task[t].pc = "present"
      /\ task[t].seen = {"unknown"}
      /\ task[t].last = StatusOnly("QUEUED")
      /\ task[t].queries = MaxAttempts
      /\ task[t].result.kind = "timeout"

\* C29: a run sends at most one run request, makes at most max_attempts
\* status queries and at most max_attempts - 1 sleeps, and, every awaited
\* call returning or raising, a run that was created ends.
C29_RunTerminatesWithinBudget ==
    /\ [](\A t \in Tasks :
            /\ task[t].posts <= 1
            /\ task[t].attempts \in {0, MaxAttempts}
            /\ task[t].queries <= task[t].attempts
            /\ task[t].current_attempt <= task[t].attempts
            /\ task[t].pc \in {"polling", "sleeping"} => task[t].sleeps <= task[t].attempts - 1
            /\ task[t].sleeps <= MaxAttempts - 1)
    /\ \A t \in Tasks : (task[t].pc \in InFlight) ~> (task[t].pc = "done")

\* The longest run: every query of the budget was made and answered, every
\* sleep between them taken, and the run has ended with the timeout text.
C29_Witness ==
    \E t \in Tasks :
      /\ task[t].pc = "done"
      /\ ~task[t].direct
      /\ task[t].posts = 1
      /\ task[t].result.kind = "timeout"
      /\ task[t].message.text = "timeout"

\* C30: every status query of a run is sent by the client that was selected
\* at its dispatch and that sent its run request, wherever the shared
\* cursor points when the query is sent.
C30_PollsByTheSubmittingClient ==
    \A t \in Tasks :
      task[t].pc \in {"polling", "sleeping", "present"} =>
        /\ task[t].polled \subseteq {task[t].selected}
        /\ task[t].queries >= 1 => task[t].polled = {task[t].selected}
        /\ ~task[t].direct =>
             \E i \in 1..Len(dispatchLog) :
               fusion_clients[dispatchLog[i]] = task[t].selected

\* A run has sent its run request through client 1, another run was then
\* dispatched to client 2 and moved the cursor, and the first run has sent
\* a status query after that, through client 1.
C30_Witness ==
    \E t, u \in Tasks :
      /\ t # u
      /\ task[t].pc = "polling"
      /\ task[t].queries = 2
      /\ task[t].moved
      /\ task[t].selected = 1
      /\ task[t].polled = {1}
      /\ task[u].selected = 2

C32_CursorWithinPool ==
    mainpc = "serving" =>
      /\ PoolSize >= 1
      /\ fusion_client_index >= 0
      /\ fusion_client_index < PoolSize

\* With two clients, two runs have been dispatched and are both still
\* waiting for the reply to their run request; the cursor is back at 0.
C32_Witness ==
    /\ mainpc = "serving"
    /\ PoolSize = 2
    /\ Len(dispatchLog) = 2
    /\ fusion_client_index = 0
    /\ \A t \in Tasks : task[t].pc = "submitting"

\* C33: a client whose startup resolution returned True holds a pipeline_id
\* that is neither None nor empty, and no run dispatched to a pool client
\* enters the resolution inside generate().
C33_SuccessMeansNonEmptyId ==
    /\ \A c \in Creds : initTask[c] = "true" => pipeline_id[c] \notin {None, ""}
    /\ \A t \in Tasks : ~task[t].direct => task[t].pc # "resolving"

\* A client is in the pool with the empty identifier its resolution stored,
\* and a run dispatched to it is inside the resolution made by generate().
C33_PooledClientResolvesAgain ==
    \E t \in Tasks :
      /\ ~task[t].direct
      /\ task[t].pc = "resolving"
      /\ task[t].id_before = ""
      /\ initTask[task[t].selected] = "true"
      /\ \E i \in 1..Len(fusion_clients) : fusion_clients[i] = task[t].selected

\* C34: check_generation called with a budget of 0 or less returns "timeout"
\* having sent no status query and slept not at all; with a budget of 1 it
\* sends one query.
C34_NoBudgetNoQuery ==
    \A t \in Tasks :
      (task[t].direct /\ task[t].uuid = "job") =>
        /\ task[t].pc \in {"polling", "sleeping", "present"} =>
             (task[t].queries >= 1 <=> task[t].attempts >= 1)
        /\ (task[t].pc = "present" /\ task[t].attempts <= 0) =>
             /\ task[t].result = Result("timeout", <<>>)
             /\ task[t].queries = 0
             /\ task[t].sleeps = 0
             /\ task[t].polled = {}
             /\ task[t].last = NoReply
        /\ task[t].pc \in {"polling", "sleeping"} => task[t].attempts >= 1

C34_Witness ==
    \E t \in Tasks :
      /\ task[t].direct
      /\ task[t].pc = "present"
      /\ task[t].attempts = -1
      /\ task[t].result = Result("timeout", <<>>)
      /\ task[t].queries = 0

C34_WitnessZero ==
    \E t \in Tasks :
      /\ task[t].direct
      /\ task[t].pc = "done"
      /\ task[t].result = Result("timeout", <<>>)
      /\ task[t].last = NoReply

====
